---------------------------- MODULE Spec2Model ----------------------------
(***************************************************************************)
(* Model of the generic circuit breaker of circuit_breaker.go.             *)
(*                                                                         *)
(* The breaker state (status, responses) is shared by every goroutine      *)
(* that runs Execute and by every recover() goroutine.  A step of the      *)
(* model is one critical section of cb.mx or one access to the shared      *)
(* fields made outside the lock (handleResponse and handleStatus read      *)
(* cb.responses and cb.status without holding cb.mx); steps that touch     *)
(* only locals of a goroutine are merged into the preceding step.  A read  *)
(* made outside the lock yields the value the field has in the state       *)
(* where the read is made.  setStatus stores cb.status and then            *)
(* cb.responses: the two stores exclude every other critical section, but  *)
(* not the reads made outside the lock, so they are two steps.             *)
(*                                                                         *)
(* recover() goroutines are counted by position (asleep, between the       *)
(* status check and the status write, or inside setStatus) and by age: a timer is fresh when    *)
(* it was scheduled during the Open period that is current, stale          *)
(* otherwise.  time.Sleep is not measured: a timer may wake at any time.   *)
(***************************************************************************)
EXTENDS Integers, Sequences, FiniteSets, TLC

(***************************************************************************)
(* Bounds of the model.                                                    *)
(***************************************************************************)
MaxWindow == 3      \* responsesThreshold ranges over 0..MaxWindow
MaxLimit == 2       \* halfOpenLimit ranges over 0..MaxLimit
MaxSeqCalls == 5    \* Execute calls made by a single caller
MaxCalls == 3       \* Execute calls made in total by concurrent callers
MaxFairCalls == 2   \* the same, where liveness is checked

Callers == {"c1", "c2"}
Thresholds == {0, 1, 60, 100}       \* errorThreshold, a percentage
ConcThresholds == {60}              \* errorThreshold with concurrent callers

(***************************************************************************)
(* type Status                                                             *)
(***************************************************************************)
StatusClosed == 0
StatusOpen == 1
StatusHalfOpen == 2

ErrCircuitOpened == "circuit status opened"
Canceled == "context canceled"
DeadlineExceeded == "context deadline exceeded"
OpErr == "operation error"
Nil == "nil"
Zero == "zero"                      \* *new(TResponse)

\* what the wrapped operation f may return: (result, err)
OpResults ==
    { [result |-> "resp", err |-> Nil],
      [result |-> "partial", err |-> OpErr] }

NoRet == [result |-> "none", err |-> "none"]
NoWorker == [pc |-> "none", result |-> "none", err |-> "none"]
NoLoc == [response |-> FALSE, successesCount |-> 0, errorsCount |-> 0]
NoGhost ==
    [stAdd |-> StatusClosed, postAdd |-> <<>>, streak |-> 0,
     delivered |-> FALSE, op |-> NoRet, cancelled |-> FALSE, recorded |-> 0]
Done == "done"                      \* a context whose error is no longer read

Kinds == {"fresh", "stale"}
NoTimers == [x \in {"sleep", "set", "reset"} \X Kinds |-> 0]

VARIABLES
    errorThreshold,      \* cb.errorThreshold
    halfOpenLimit,       \* cb.halfOpenLimit
    responsesThreshold,  \* cb.responsesThreshold
    status,              \* cb.status
    responses,           \* cb.responses
    mx,                  \* cb.mx is held by a setStatus between its two stores
    panicked,            \* a goroutine raised a runtime error
    active,              \* the goroutines that call Execute
    calls,               \* Execute calls still to be made
    pc,                  \* position of each caller inside Execute
    loc,                 \* locals of handleResponse of each caller
    ctx,                 \* state of the bounded context of each call
    worker,              \* the goroutine launched by Execute and its channel
    ret,                 \* what the last Execute of each caller returned
    timers,              \* recover() goroutines, by position and age
    g,                   \* history of the current call of each caller
    hoStreak             \* successes recorded in a row while Half-Open

vars ==
    << errorThreshold, halfOpenLimit, responsesThreshold, status, responses,
       mx, panicked, active, calls, pc, loc, ctx, worker, ret, timers, g,
       hoStreak >>

config == << errorThreshold, halfOpenLimit, responsesThreshold, active >>

(***************************************************************************)
(* Pure helpers.                                                           *)
(***************************************************************************)
RECURSIVE CountErrors(_)
CountErrors(s) ==
    IF s = <<>> THEN 0
    ELSE (IF Head(s) THEN 0 ELSE 1) + CountErrors(Tail(s))

\* successesCount of the loop of handleResponse: the trailing run of successes
RECURSIVE CountSuccesses(_)
CountSuccesses(s) ==
    IF s = <<>> THEN 0
    ELSE IF s[Len(s)] THEN 1 + CountSuccesses(SubSeq(s, 1, Len(s) - 1))
    ELSE 0

ErrorsPercentageAbove(errorsCount, n, thr) ==
    IF n = 0 THEN errorsCount > 0
    ELSE errorsCount * 100 > thr * n

\* float64(errorsCount) / float64(n) * 100 >= errorThreshold.  With n = 0 the
\* quotient is +Inf for errorsCount > 0 (the comparison holds) and NaN for
\* errorsCount = 0 (every comparison with NaN is false).
ErrorsPercentageReached(errorsCount, n, thr) ==
    IF n = 0 THEN errorsCount > 0
    ELSE errorsCount * 100 >= thr * n

\* the slice expression cb.responses[low:] is in range
SliceInRange(s, low) == low >= 0 /\ low <= Len(s)

\* an eviction that keeps responsesThreshold old outcomes: cb.responses[len-threshold:]
NewResponsesKeepsAll(s, threshold, response) ==
    IF Len(s) >= threshold
    THEN Append(SubSeq(s, (Len(s) - threshold) + 1, Len(s)), response)
    ELSE Append(s, response)

NewResponsesOverwrites(s, threshold, response) ==
    IF Len(s) >= threshold
    THEN Append(SubSeq(s, (Len(s) - threshold + 1) + 1, Len(s)), response)
    ELSE IF s = <<>> THEN << response >>
    ELSE [s EXCEPT ![Len(s)] = response]

\* cb.responses after addResponse(response)
NewResponses(s, threshold, response) ==
    IF Len(s) >= threshold
    THEN Append(SubSeq(s, (Len(s) - threshold + 1) + 1, Len(s)), response)
    ELSE Append(s, response)

\* addResponse raises "slice bounds out of range"
AddPanics(s, threshold) ==
    Len(s) >= threshold /\ ~SliceInRange(s, Len(s) - threshold + 1)

RejectedHalfOpen(st) == st = StatusHalfOpen

\* admission check of Execute
Rejected(st) == st = StatusOpen

\* first condition of handleStatus
ShouldClose(st, successesCount, limit) ==
    st = StatusHalfOpen /\ successesCount >= limit

\* second disjunct of the second condition of handleStatus
ShouldReopen(st, errorsCount, limit) ==
    st = StatusHalfOpen /\ errorsCount >= limit

ShouldRecoverHalfOpen(st) == st = StatusHalfOpen

\* condition of recover()
ShouldRecover(st) == st = StatusOpen

\* recovery timers: entering Open makes every pending timer one of an
\* earlier Open period
Age(t) ==
    [x \in DOMAIN t |->
        IF x[2] = "stale" THEN t[<<x[1], "fresh">>] + t[<<x[1], "stale">>]
        ELSE 0]

TimersAfter(s) ==
    IF s = StatusOpen /\ status # StatusOpen THEN Age(timers) ELSE timers

Pending(t) ==
    t[<<"sleep", "fresh">>] + t[<<"sleep", "stale">>]
    + t[<<"set", "fresh">>] + t[<<"set", "stale">>]
    + t[<<"reset", "fresh">>] + t[<<"reset", "stale">>]

FreshPending(t) ==
    t[<<"sleep", "fresh">>] + t[<<"set", "fresh">>] + t[<<"reset", "fresh">>]

\* setStatus, first store: cb.mx is taken and cb.status written
SetStatus(s) ==
    /\ ~mx
    /\ mx' = TRUE
    /\ status' = s
    /\ hoStreak' = 0

\* setStatus, second store: cb.responses is replaced and cb.mx released
ResetResponses ==
    /\ mx
    /\ mx' = FALSE
    /\ responses' = <<>>

(***************************************************************************)
(* Initial states: NewCB, for every configuration of the bounds.           *)
(***************************************************************************)
NewCB ==
    /\ status = StatusClosed
    /\ responses = <<>>
    /\ mx = FALSE
    /\ panicked = FALSE
    /\ pc = [p \in Callers |-> "idle"]
    /\ loc = [p \in Callers |-> NoLoc]
    /\ ctx = [p \in Callers |-> "live"]
    /\ worker = [p \in Callers |-> NoWorker]
    /\ ret = [p \in Callers |-> NoRet]
    /\ timers = NoTimers
    /\ g = [p \in Callers |-> NoGhost]
    /\ hoStreak = 0

\* concurrent callers
Init ==
    /\ NewCB
    /\ errorThreshold \in ConcThresholds
    /\ halfOpenLimit \in {1, MaxLimit}
    /\ responsesThreshold = MaxWindow
    /\ active = Callers
    /\ calls = MaxCalls

\* concurrent callers, fewer calls
InitFair ==
    /\ NewCB
    /\ errorThreshold \in ConcThresholds
    /\ halfOpenLimit \in {1, MaxLimit}
    /\ responsesThreshold = MaxWindow
    /\ active = Callers
    /\ calls = MaxFairCalls

\* one caller: Execute calls never overlap
InitSeq ==
    /\ NewCB
    /\ errorThreshold \in Thresholds
    /\ halfOpenLimit \in 0..MaxLimit
    /\ responsesThreshold \in 0..MaxWindow
    /\ active = {"c1"}
    /\ calls = MaxSeqCalls

(***************************************************************************)
(* Execute: admission check, bounded context, launch of the operation.     *)
(* A goroutine abandoned by an earlier call of the same caller touches     *)
(* nothing but its own channel and context, so the caller's next call is   *)
(* taken to start after that goroutine has ended.                          *)
(***************************************************************************)
Execute(p, cancelledBefore) ==
    /\ ~panicked
    /\ ~mx
    /\ calls > 0
    /\ pc[p] = "idle"
    /\ worker[p].pc = "none"
    /\ calls' = calls - 1
    /\ IF Rejected(status)
       THEN /\ ret' = [ret EXCEPT ![p] = [result |-> Zero, err |-> ErrCircuitOpened]]
            /\ UNCHANGED << pc, ctx, worker >>
       ELSE /\ ret' = [ret EXCEPT ![p] = NoRet]
            /\ pc' = [pc EXCEPT ![p] = "select"]
            /\ ctx' = [ctx EXCEPT ![p] = IF cancelledBefore THEN Canceled ELSE "live"]
            /\ worker' = [worker EXCEPT ![p] = [NoWorker EXCEPT !.pc = "running"]]
    /\ UNCHANGED << config, status, responses, mx, panicked, loc, timers, g,
                    hoStreak >>

\* the bounded context expires or the caller cancels it while Execute waits.
\* Closing the Done channel wakes every goroutine parked on it with that case
\* chosen, so from here on nothing is sent on the channel of this call.
CtxDone(p, e) ==
    /\ ~panicked
    /\ pc[p] \in {"select", "parked"}
    /\ ctx[p] = "live"
    /\ ctx' = [ctx EXCEPT ![p] = e]
    /\ UNCHANGED << config, status, responses, mx, panicked, calls, pc, loc,
                    worker, ret, timers, g, hoStreak >>

\* what the operation returned, as far as it has returned
OpOf(w) ==
    IF w.pc \in {"parked", "closed"} THEN [result |-> w.result, err |-> w.err]
    ELSE NoRet

\* Execute leaves its select with the value (result, err) it is going to
\* return and the outcome it is going to record
Selected(p, result, err, response, delivered, op) ==
    /\ pc' = [pc EXCEPT ![p] = "addResponse"]
    /\ loc' = [loc EXCEPT ![p].response = response]
    /\ ret' = [ret EXCEPT ![p] = [result |-> result, err |-> err]]
    /\ g' = [g EXCEPT ![p].delivered = delivered,
                      ![p].op = op,
                      ![p].cancelled = (ctx[p] = Canceled)]
    /\ ctx' = [ctx EXCEPT ![p] = IF @ = "live" THEN @ ELSE Done]

\* a receive that hands the value of a failed operation on to the caller
ReceivedKeepsResult(p, result, err, delivered, op) ==
    Selected(p, result, err, err = Nil, delivered, op)

\* Execute receives (result, err) from the channel
Received(p, result, err, delivered, op) ==
    IF err # Nil
    THEN Selected(p, Zero, err, FALSE, delivered, op)
    ELSE Selected(p, result, Nil, TRUE, delivered, op)

\* a goroutine select without the case on the context
WorkerWakesNever(c) == FALSE

\* case <-ctx.Done() of the goroutine's select is ready
WorkerWakes(c) == c # "live"

\* f returns (r) and the goroutine runs its select: with the context done it
\* takes that case and the deferred close(ch) runs; with Execute parked on the
\* channel the value is handed over; otherwise the goroutine parks
WorkerSelect(p, r) ==
    /\ ~panicked
    /\ worker[p].pc = "running"
    /\ IF WorkerWakes(ctx[p])
       THEN /\ worker' = [worker EXCEPT ![p] =
                            IF pc[p] = "select"
                            THEN [pc |-> "closed", result |-> r.result, err |-> r.err]
                            ELSE NoWorker]
            /\ UNCHANGED << pc, loc, ret, g, ctx >>
       ELSE IF pc[p] = "parked"
       THEN /\ worker' = [worker EXCEPT ![p] = NoWorker]
            /\ Received(p, r.result, r.err, TRUE, r)
       ELSE /\ worker' = [worker EXCEPT ![p] =
                            [pc |-> "parked", result |-> r.result, err |-> r.err]]
            /\ UNCHANGED << pc, loc, ret, g, ctx >>
    /\ UNCHANGED << config, status, responses, mx, panicked, calls, timers,
                    hoStreak >>

\* the parked goroutine is woken by  case <-ctx.Done()  and closes the channel
WorkerDone(p) ==
    /\ ~panicked
    /\ worker[p].pc = "parked"
    /\ WorkerWakes(ctx[p])
    /\ worker' = [worker EXCEPT ![p] =
                    IF pc[p] = "select" THEN [@ EXCEPT !.pc = "closed"]
                    ELSE NoWorker]
    /\ UNCHANGED << config, status, responses, mx, panicked, calls, pc, loc, ctx,
                    ret, timers, g, hoStreak >>

\* Execute takes  case <-ctx.Done()
SelectDone(p) ==
    /\ ~panicked
    /\ pc[p] \in {"select", "parked"}
    /\ ctx[p] # "live"
    /\ Selected(p, Zero, ctx[p], FALSE, FALSE, OpOf(worker[p]))
    /\ worker' = [worker EXCEPT ![p] =
                    IF @.pc = "closed" THEN NoWorker
                    ELSE [NoWorker EXCEPT !.pc = worker[p].pc]]
    /\ UNCHANGED << config, status, responses, mx, panicked, calls, timers,
                    hoStreak >>

\* Execute takes  case result := <-ch  from the parked goroutine
SelectRecv(p) ==
    /\ ~panicked
    /\ pc[p] = "select"
    /\ worker[p].pc = "parked"
    /\ ctx[p] = "live"
    /\ Received(p, worker[p].result, worker[p].err, TRUE, OpOf(worker[p]))
    /\ worker' = [worker EXCEPT ![p] = NoWorker]
    /\ UNCHANGED << config, status, responses, mx, panicked, calls, timers,
                    hoStreak >>

\* Execute takes  case result := <-ch  on the channel the goroutine closed
\* without sending: the receive yields the zero value of response
SelectRecvClosed(p) ==
    /\ ~panicked
    /\ pc[p] = "select"
    /\ worker[p].pc = "closed"
    /\ Received(p, Zero, Nil, FALSE, OpOf(worker[p]))
    /\ worker' = [worker EXCEPT ![p] = NoWorker]
    /\ UNCHANGED << config, status, responses, mx, panicked, calls, timers,
                    hoStreak >>

\* no case of the select of Execute is ready: Execute parks
SelectPark(p) ==
    /\ ~panicked
    /\ pc[p] = "select"
    /\ ctx[p] = "live"
    /\ worker[p].pc = "running"
    /\ pc' = [pc EXCEPT ![p] = "parked"]
    /\ UNCHANGED << config, status, responses, mx, panicked, calls, loc, ctx,
                    worker, ret, timers, g, hoStreak >>

(***************************************************************************)
(* handleResponse: addResponse, the counting loop, handleStatus.           *)
(***************************************************************************)
\* the end of Execute; the history of the call ends with it
Return(p) ==
    /\ pc' = [pc EXCEPT ![p] = "idle"]
    /\ loc' = [loc EXCEPT ![p] = NoLoc]
    /\ g' = [g EXCEPT ![p] = NoGhost]

\* addResponse, one critical section
AddResponse(p) ==
    /\ ~panicked
    /\ ~mx
    /\ pc[p] = "addResponse"
    /\ IF AddPanics(responses, responsesThreshold)
       THEN /\ panicked' = TRUE
            /\ UNCHANGED << responses, pc, g, hoStreak >>
       ELSE /\ responses' = NewResponses(responses, responsesThreshold, loc[p].response)
            /\ pc' = [pc EXCEPT ![p] = "range"]
            /\ hoStreak' = IF status = StatusHalfOpen /\ loc[p].response
                           THEN hoStreak + 1 ELSE 0
            /\ g' = [g EXCEPT ![p].stAdd = status,
                              ![p].postAdd = responses',
                              ![p].streak = hoStreak',
                              ![p].recorded = @ + 1]
            /\ UNCHANGED panicked
    /\ UNCHANGED << config, status, mx, calls, loc, ctx, worker, ret, timers >>

\* for _, res := range cb.responses: the slice is read without the lock
RangeResponses(p) ==
    /\ ~panicked
    /\ pc[p] = "range"
    /\ loc' = [loc EXCEPT ![p].successesCount = CountSuccesses(responses),
                          ![p].errorsCount = CountErrors(responses)]
    /\ pc' = [pc EXCEPT ![p] = "handleStatus"]
    /\ g' = [g EXCEPT ![p].delivered = FALSE,
                      ![p].op = NoRet,
                      ![p].cancelled = FALSE]
    /\ UNCHANGED << config, status, responses, mx, panicked, calls, ctx, worker,
                    ret, timers, hoStreak >>

\* handleStatus, first condition: cb.status is read without the lock
HandleStatus(p) ==
    /\ ~panicked
    /\ pc[p] = "handleStatus"
    /\ pc' = [pc EXCEPT ![p] =
                IF ShouldClose(status, loc[p].successesCount, halfOpenLimit)
                THEN "setClosed" ELSE "percentage"]
    /\ UNCHANGED << config, status, responses, mx, panicked, calls, loc, ctx,
                    worker, ret, timers, g, hoStreak >>

\* cb.setStatus(StatusClosed), first store
SetStatusClosed(p) ==
    /\ ~panicked
    /\ pc[p] = "setClosed"
    /\ SetStatus(StatusClosed)
    /\ timers' = TimersAfter(StatusClosed)
    /\ pc' = [pc EXCEPT ![p] = "resetClosed"]
    /\ UNCHANGED << config, responses, panicked, calls, loc, ctx, worker, ret, g >>

\* the second store of the setStatus a caller is in
SetStatusReset(p) ==
    /\ ~panicked
    /\ pc[p] \in {"resetClosed", "resetOpen"}
    /\ ResetResponses
    /\ pc' = [pc EXCEPT ![p] = IF @ = "resetClosed" THEN "percentage" ELSE "goRecover"]
    /\ UNCHANGED << config, status, panicked, calls, loc, ctx, worker, ret,
                    timers, g, hoStreak >>

\* errorsPercentage: len(cb.responses) is read without the lock
Percentage(p) ==
    /\ ~panicked
    /\ pc[p] = "percentage"
    /\ pc' = [pc EXCEPT ![p] =
                IF ErrorsPercentageReached(loc[p].errorsCount, Len(responses), errorThreshold)
                THEN "setOpen" ELSE "checkHalfOpen"]
    /\ UNCHANGED << config, status, responses, mx, panicked, calls, loc, ctx,
                    worker, ret, timers, g, hoStreak >>

\* second disjunct of the second condition; Execute returns when it is false
CheckHalfOpen(p) ==
    /\ ~panicked
    /\ pc[p] = "checkHalfOpen"
    /\ IF ShouldReopen(status, loc[p].errorsCount, halfOpenLimit)
       THEN /\ pc' = [pc EXCEPT ![p] = "setOpen"]
            /\ UNCHANGED << loc, g >>
       ELSE Return(p)
    /\ UNCHANGED << config, status, responses, mx, panicked, calls, ctx, worker,
                    ret, timers, hoStreak >>

\* cb.setStatus(StatusOpen), first store
SetStatusOpen(p) ==
    /\ ~panicked
    /\ pc[p] = "setOpen"
    /\ SetStatus(StatusOpen)
    /\ timers' = TimersAfter(StatusOpen)
    /\ pc' = [pc EXCEPT ![p] = "resetOpen"]
    /\ UNCHANGED << config, responses, panicked, calls, loc, ctx, worker, ret, g >>

\* go cb.recover(), then Execute returns
GoRecover(p) ==
    /\ ~panicked
    /\ pc[p] = "goRecover"
    /\ LET k == IF status = StatusOpen THEN "fresh" ELSE "stale"
       IN timers' = [timers EXCEPT ![<<"sleep", k>>] = @ + 1]
    /\ Return(p)
    /\ UNCHANGED << config, status, responses, mx, panicked, calls, ctx, worker,
                    ret, hoStreak >>

(***************************************************************************)
(* recover: the sleep ends, the status is checked in one critical section  *)
(* and written in another.                                                 *)
(***************************************************************************)
Recover(k) ==
    /\ ~panicked
    /\ ~mx
    /\ timers[<<"sleep", k>>] > 0
    /\ timers' = IF ShouldRecover(status)
                 THEN [timers EXCEPT ![<<"sleep", k>>] = @ - 1,
                                     ![<<"set", k>>] = @ + 1]
                 ELSE [timers EXCEPT ![<<"sleep", k>>] = @ - 1]
    /\ UNCHANGED << config, status, responses, mx, panicked, calls, pc, loc, ctx,
                    worker, ret, g, hoStreak >>

\* cb.setStatus(StatusHalfOpen) of recover, first store
RecoverSet(k) ==
    /\ ~panicked
    /\ timers[<<"set", k>>] > 0
    /\ SetStatus(StatusHalfOpen)
    /\ timers' = [timers EXCEPT ![<<"set", k>>] = @ - 1,
                                ![<<"reset", k>>] = @ + 1]
    /\ UNCHANGED << config, responses, panicked, calls, pc, loc, ctx, worker,
                    ret, g >>

\* cb.setStatus(StatusHalfOpen) of recover, second store; recover ends
RecoverReset(k) ==
    /\ ~panicked
    /\ timers[<<"reset", k>>] > 0
    /\ ResetResponses
    /\ timers' = [timers EXCEPT ![<<"reset", k>>] = @ - 1]
    /\ UNCHANGED << config, status, panicked, calls, pc, loc, ctx, worker,
                    ret, g, hoStreak >>

\* the steps of handleResponse, which never wait for anything but cb.mx
HandleStep(p) ==
    \/ AddResponse(p)
    \/ RangeResponses(p)
    \/ HandleStatus(p)
    \/ SetStatusClosed(p)
    \/ Percentage(p)
    \/ CheckHalfOpen(p)
    \/ SetStatusOpen(p)
    \/ SetStatusReset(p)
    \/ GoRecover(p)

TimerStep == \E k \in Kinds : Recover(k) \/ RecoverSet(k) \/ RecoverReset(k)

Next ==
    \/ \E p \in active, b \in BOOLEAN : Execute(p, b)
    \/ \E p \in active, e \in {Canceled, DeadlineExceeded} : CtxDone(p, e)
    \/ \E p \in active, r \in OpResults : WorkerSelect(p, r)
    \/ \E p \in active : WorkerDone(p)
    \/ \E p \in active : SelectDone(p)
    \/ \E p \in active : SelectRecv(p)
    \/ \E p \in active : SelectRecvClosed(p)
    \/ \E p \in active : SelectPark(p)
    \/ \E p \in active : AddResponse(p)
    \/ \E p \in active : RangeResponses(p)
    \/ \E p \in active : HandleStatus(p)
    \/ \E p \in active : SetStatusClosed(p)
    \/ \E p \in active : Percentage(p)
    \/ \E p \in active : CheckHalfOpen(p)
    \/ \E p \in active : SetStatusOpen(p)
    \/ \E p \in active : SetStatusReset(p)
    \/ \E p \in active : GoRecover(p)
    \/ \E k \in Kinds : Recover(k)
    \/ \E k \in Kinds : RecoverSet(k)
    \/ \E k \in Kinds : RecoverReset(k)

Spec == Init /\ [][Next]_vars

SeqSpec == InitSeq /\ [][Next]_vars

\* every goroutine that can run does run: handleResponse and recover
FairSpec ==
    /\ InitFair
    /\ [][Next]_vars
    /\ \A p \in Callers : WF_vars(HandleStep(p))
    /\ \A k \in Kinds :
          WF_vars(Recover(k)) /\ WF_vars(RecoverSet(k)) /\ WF_vars(RecoverReset(k))

\* the goroutine of an operation that has returned is resumed when a case of
\* its select is ready, and so is Execute when the goroutine offers a value
FairGoSpec ==
    /\ InitFair
    /\ [][Next]_vars
    /\ \A p \in Callers : WF_vars(WorkerDone(p)) /\ WF_vars(SelectRecv(p))

(***************************************************************************)
(* Properties.                                                             *)
(***************************************************************************)
\* the number of failures in a history
Failures(h) == Cardinality({i \in 1..Len(h) : ~h[i]})

\* the number of successes at the end of a history
Streak(h) ==
    CHOOSE k \in 0..Len(h) :
        /\ \A i \in (Len(h) - k + 1)..Len(h) : h[i]
        /\ k = Len(h) \/ ~h[Len(h) - k]

\* Execute of p returns from handleResponse in this step
Returns(p) == pc[p] \in {"checkHalfOpen", "goRecover"} /\ pc'[p] = "idle"

\* Execute of p returns in this step having scheduled a recovery timer
ReturnsScheduling(p) ==
    /\ pc[p] = "goRecover"
    /\ pc'[p] = "idle"
    /\ Pending(timers') = Pending(timers) + 1

\* C1: an Execute call whose admission check sees Open returns
\* ErrCircuitOpened with the zero response; no goroutine is launched for the
\* operation, no outcome is recorded, status and history stay as they are.
C1_OpenRejects ==
    [][(calls' = calls - 1 /\ status = StatusOpen) =>
        /\ UNCHANGED << status, responses, pc, loc, ctx, worker, timers, hoStreak >>
        /\ \E p \in active :
            /\ pc[p] = "idle"
            /\ ret' = [ret EXCEPT ![p] = [result |-> Zero, err |-> ErrCircuitOpened]]
      ]_vars

C1_Witness ==
    \E p \in active :
        /\ status = StatusOpen
        /\ pc[p] = "idle"
        /\ ret[p] = [result |-> Zero, err |-> ErrCircuitOpened]

\* C2: with one caller and the breaker Closed when an outcome is recorded:
\* if failures / length * 100 >= errorThreshold over the history holding that
\* outcome, the breaker is Open with an empty history and a recovery timer
\* scheduled when Execute returns; otherwise it is still Closed with that
\* history.
C2_ClosedTripsAtThreshold ==
    [][\A p \in active :
        (Returns(p) /\ g[p].stAdd = StatusClosed) =>
            LET h == g[p].postAdd IN
            IF Failures(h) * 100 >= errorThreshold * Len(h)
            THEN /\ status' = StatusOpen
                 /\ responses' = <<>>
                 /\ ReturnsScheduling(p)
            ELSE /\ status' = StatusClosed
                 /\ responses' = h
      ]_vars

C2_Witness ==
    /\ active = {"c1"}
    /\ pc["c1"] = "goRecover"
    /\ g["c1"].stAdd = StatusClosed
    /\ Len(g["c1"].postAdd) = 2
    /\ status = StatusOpen
    /\ responses = <<>>

\* C3: with one caller, halfOpenLimit >= 1, responsesThreshold >= 1 and
\* 0 < errorThreshold <= 100: when the outcome a call records while Half-Open
\* is the halfOpenLimit-th success in a row recorded while Half-Open, the
\* breaker is Closed when that call returns.
C3_HalfOpenSuccessesClose ==
    [][\A p \in active :
        ( /\ Returns(p)
          /\ g[p].stAdd = StatusHalfOpen
          /\ halfOpenLimit >= 1
          /\ responsesThreshold >= 1
          /\ errorThreshold > 0 /\ errorThreshold <= 100
          /\ g[p].streak = halfOpenLimit )
        => status' = StatusClosed
      ]_vars

\* C4: with one caller and the breaker Half-Open when an outcome is recorded:
\* if then failures >= halfOpenLimit or failures / length * 100 >=
\* errorThreshold, the breaker is Open with an empty history and a new
\* recovery timer scheduled when Execute returns; otherwise, if the success
\* streak is below halfOpenLimit, it is still Half-Open.
C4_HalfOpenReopens ==
    [][\A p \in active :
        (Returns(p) /\ g[p].stAdd = StatusHalfOpen) =>
            LET h == g[p].postAdd IN
            IF \/ Failures(h) >= halfOpenLimit
               \/ Failures(h) * 100 >= errorThreshold * Len(h)
            THEN /\ status' = StatusOpen
                 /\ responses' = <<>>
                 /\ ReturnsScheduling(p)
            ELSE Streak(h) < halfOpenLimit => status' = StatusHalfOpen
      ]_vars

\* C5: the breaker leaves Open only by the Open -> Half-Open flip of a
\* recovery timer that was scheduled during the Open period it ends.
C5_OpenUntilOwnTimer ==
    [][(status = StatusOpen /\ status' # StatusOpen) =>
        /\ status' = StatusHalfOpen
        /\ timers' = [timers EXCEPT ![<<"set", "fresh">>] = @ - 1,
                                    ![<<"reset", "fresh">>] = @ + 1]
        /\ timers[<<"set", "fresh">>] > 0
      ]_vars

\* C6: whenever the breaker is Open it eventually is not Open.
C6_OpenEnds == (status = StatusOpen) ~> (status # StatusOpen)

C6_Witness ==
    /\ status = StatusOpen
    /\ FreshPending(timers) >= 1
    /\ \E p \in active : pc[p] = "idle" /\ ret[p].err = ErrCircuitOpened
    /\ calls = 0

\* the outcome the call of p has just recorded
Recorded(p) == g[p].postAdd[Len(g[p].postAdd)]

\* C7: Execute returns a nil error and records a success only if the
\* operation returned a nil error and its value was handed over, and then it
\* returns the value of the operation; in every other case it returns an
\* error and records a failure.  (Read once the outcome is recorded; the
\* value to return is fixed from the select on.)
C7_NoFailureSwallowed ==
    \A p \in active :
        pc[p] = "range" =>
            IF ret[p].err = Nil
            THEN /\ g[p].delivered
                 /\ g[p].op.err = Nil
                 /\ ret[p].result = g[p].op.result
                 /\ Recorded(p)
            ELSE ~Recorded(p)

\* C8: when the context of the caller is cancelled before Execute has
\* received the result of the operation, Execute returns the cancellation
\* error and records a failure.
C8_CancelledFails ==
    \A p \in active :
        (pc[p] = "range" /\ g[p].cancelled) =>
            /\ ret[p] = [result |-> Zero, err |-> Canceled]
            /\ g[p].recorded = 1
            /\ ~Recorded(p)

\* C9: while the breaker is Open, at most one recovery timer scheduled during
\* the current Open period is pending.
C9_OneTimerPerOpenPeriod ==
    status = StatusOpen => FreshPending(timers) <= 1

\* C10: every admitted Execute call appends exactly one outcome, its own, to
\* the history before it returns, and no other step of a caller adds to or
\* alters the recorded outcomes (a status write empties the history).
C10_OneOutcomePerCall ==
    [][\A p \in active :
        /\ Returns(p) => g[p].recorded = 1
        /\ (pc[p] = "addResponse" /\ pc'[p] = "range") =>
              IF Len(responses) < responsesThreshold
              THEN responses' = Append(responses, loc[p].response)
              ELSE \E k \in 1..Len(responses) :
                      responses' =
                          Append(SubSeq(responses, k + 1, Len(responses)), loc[p].response)
        /\ (pc[p] # "addResponse" /\ pc'[p] # pc[p]) =>
              responses' \in {responses, <<>>}
      ]_vars

C10_Witness ==
    /\ active = Callers
    /\ \A p \in Callers : pc[p] = "range" /\ g[p].recorded = 1
    /\ Len(responses) = 2

\* C11: the breaker cannot panic: for every configuration NewCB accepts and
\* every sequence of outcomes, no step of Execute raises a runtime error.
C11_NeverPanics == ~panicked

\* C12: the goroutine of an operation never blocks forever delivering its
\* result: once the operation has returned, the goroutine terminates, whether
\* Execute is still waiting or has already left its select.
C12_GoroutineEnds ==
    \A p \in Callers :
        (worker[p].pc = "parked") ~> (worker[p].pc \in {"none", "closed"})

\* the operation has returned after Execute gave up on it
C12_Witness ==
    \E p \in Callers :
        /\ worker[p].pc = "parked"
        /\ pc[p] \notin {"idle", "select", "parked"}

\* C13: when Execute receives the result of the operation and it carries a
\* non-nil error, Execute returns that error unchanged with the zero response
\* and records exactly one failure.
C13_OperationErrorReturned ==
    \A p \in active :
        (pc[p] = "range" /\ g[p].delivered /\ g[p].op.err # Nil) =>
            /\ ret[p] = [result |-> Zero, err |-> g[p].op.err]
            /\ g[p].recorded = 1
            /\ ~Recorded(p)

C13_Witness ==
    /\ pc["c1"] = "range"
    /\ g["c1"].delivered
    /\ g["c1"].op = [result |-> "partial", err |-> OpErr]
    /\ ret["c1"].err = OpErr
    /\ responses # <<>>

\* recover() goroutines inside their setStatus(StatusHalfOpen)
Writing(t) == t[<<"reset", "fresh">>] + t[<<"reset", "stale">>]

\* C14: recover() writes Half-Open only if the breaker is still Open at the
\* moment the status is written: it never overwrites Closed or Half-Open.
C14_RecoverOnlyFromOpen ==
    [][Writing(timers') = Writing(timers) + 1 => status = StatusOpen]_vars

\* p is at a read of cb.status or cb.responses made without cb.mx
UnlockedReader(p) == pc[p] \in {"range", "handleStatus", "percentage", "checkHalfOpen"}

\* cb.status holds the status just written, cb.responses still the history
\* of before the write
HalfWritten == mx /\ responses # <<>>

\* C15: every status write clears the observation history in the same
\* atomic step: no concurrent reader can observe the new status together
\* with the old history.
C15_ResetWithStatus ==
    \A p \in active : UnlockedReader(p) => ~HalfWritten

\* C16: a failure recorded before a status transition never contributes to a
\* decision taken after it: the failure count that handleStatus compares
\* against errorThreshold and the total it divides by come from the same
\* history, the one current since the last reset.
C16_CountFromCurrentHistory ==
    \A p \in active :
        pc[p] = "percentage" => loc[p].errorsCount = Failures(responses)

\* C17: outcome recording never takes the breaker out of Open: the only step
\* that leaves Open is the Open -> Half-Open write of a recovery timer.
C17_OnlyTimerLeavesOpen ==
    [][(status = StatusOpen /\ status' # StatusOpen) =>
        /\ status' = StatusHalfOpen
        /\ Writing(timers') = Writing(timers) + 1
        /\ pc' = pc
      ]_vars

\* C18: the breaker goes from Half-Open to Closed only after at least
\* halfOpenLimit successes have been recorded since it last entered Half-Open
\* with no failure recorded after the first of them; a streak counted in an
\* earlier status period never closes the breaker.
C18_ClosedOnlyAfterStreak ==
    [][(status = StatusHalfOpen /\ status' = StatusClosed) =>
        hoStreak >= halfOpenLimit
      ]_vars

\* C19: for responsesThreshold >= 1 the history holds at most
\* responsesThreshold outcomes in every reachable state; recording into a
\* full history evicts exactly the oldest entry and appends the new outcome
\* at the end, the remaining entries keeping their order.
C19_WindowBounded ==
    [][responsesThreshold >= 1 =>
        /\ Len(responses) <= responsesThreshold
        /\ Len(responses') <= responsesThreshold
        /\ \A p \in active :
            (/\ pc[p] = "addResponse"
             /\ pc'[p] = "range"
             /\ Len(responses) = responsesThreshold) =>
                responses' = Append(Tail(responses), loc[p].response)
      ]_vars

\* the third outcome recorded into a window of two
C19_Witness ==
    /\ responsesThreshold = 2
    /\ errorThreshold = 100
    /\ calls = MaxSeqCalls - 3
    /\ status = StatusClosed
    /\ Pending(timers) = 0
    /\ pc["c1"] = "range"
    /\ responses = << TRUE, FALSE >>

\* C20: a successful outcome never trips the breaker: for errorThreshold > 0
\* and non-overlapping calls, an Execute that records a success in Closed or
\* Half-Open does not leave the breaker Open when it returns.
C20_SuccessNeverTrips ==
    [][\A p \in active :
        (/\ Returns(p)
         /\ errorThreshold > 0
         /\ g[p].stAdd \in {StatusClosed, StatusHalfOpen}
         /\ Recorded(p)) =>
            status' # StatusOpen
      ]_vars

==========================================================================
